---- MODULE Spec2Model ----
(***************************************************************************)
(* The SEMAFOR adapter of xtas (src/xtas/tasks/_semafor.py): a lazily      *)
(* started, lock-guarded singleton around one long-lived external parser   *)
(* process that is spoken to over a line-oriented protocol, and the        *)
(* add_frames routine that feeds a document's trees through it.            *)
(*                                                                         *)
(* Text is modelled at the character level: a line is a sequence of        *)
(* one-character strings, so that strip(), the sentinel comparison and     *)
(* JSON decoding are computed, not assumed.                                *)
(***************************************************************************)
EXTENDS Integers, Sequences, FiniteSets, TLC

(***************************************************************************)
(* Bounds of the model.                                                    *)
(***************************************************************************)
\* number of concurrent caller threads
NCallers == 2
\* total number of calls to the module-level call_semafor in one run
MaxCalls == 2

Callers == 1..NCallers

(***************************************************************************)
(* Characters, str.strip() and the lines of the wire protocol.             *)
(***************************************************************************)
NL == "\n"
Whitespace == {" ", NL, "\t"}

RECURSIVE LStrip(_)
LStrip(s) ==
    IF s = <<>> THEN <<>>
    ELSE IF Head(s) \in Whitespace THEN LStrip(Tail(s)) ELSE s

RECURSIVE RStrip(_)
RStrip(s) ==
    IF s = <<>> THEN <<>>
    ELSE IF s[Len(s)] \in Whitespace THEN RStrip(SubSeq(s, 1, Len(s) - 1)) ELSE s

\* str.strip(): leading and trailing whitespace removed
Strip(s) == RStrip(LStrip(s))

\* the text ">>>" that line.strip() is compared with
SentinelText == <<">", ">", ">">>
\* the sentinel line as the process prints it
SentinelLine == SentinelText \o <<NL>>
\* a sentinel with whitespace around it
PaddedSentinelLine == <<" ">> \o SentinelText \o <<" ", NL>>
\* a line that merely contains the sentinel text
LongSentinelLine == <<">">> \o SentinelText \o <<NL>>
\* a line of the startup banner
BannerLine == <<"b", NL>>
\* a line that is not JSON
GarbageLine == <<"x", NL>>
\* what readline() returns at end-of-file
EOFLine == <<>>

(***************************************************************************)
(* JSON: the process answers a request whose text is k with the object     *)
(* {"id": k}, printed on one line; the adapter decodes the line.           *)
(***************************************************************************)
JsonDumps(obj) == <<"{">> \o obj.id \o <<"}">>

\* json.loads(line): surrounding whitespace is ignored; anything that is not
\* an object raises ValueError
JsonLoads(line) ==
    LET t == Strip(line) IN
    IF Len(t) >= 2 /\ t[1] = "{" /\ t[Len(t)] = "}"
    THEN [ok |-> TRUE, val |-> <<[id |-> SubSeq(t, 2, Len(t) - 1)]>>]
    ELSE [ok |-> FALSE, val |-> <<>>]

\* the object the parser produces for the request text k
Answer(k) == [id |-> k]
PayloadLine(k) == JsonDumps(Answer(k)) \o <<NL>>

(***************************************************************************)
(* The requests callers submit (conll_str): the text of one sentence,      *)
(* with or without whitespace around it and with no blank line inside it.  *)
(***************************************************************************)
Requests == { <<"a">>, <<" ", "c", NL>> }

(***************************************************************************)
(* The external parser process, seen from its pipes.  What it prints is    *)
(* not under the adapter's control: at launch it commits to one startup    *)
(* script and for every request it reads to one response script.  A script *)
(* is the lines it prints, whether its output then ends (eof), whether the *)
(* process is still there to be written to (alive), and whether the script *)
(* follows the protocol (ok: the banner then the sentinel; one payload     *)
(* line for the request then the sentinel).  A script with neither a       *)
(* sentinel nor eof is a process that hangs.                               *)
(***************************************************************************)
Script(ls, e, a, k) == [lines |-> ls, eof |-> e, alive |-> a, ok |-> k]

\* the script prints one frame: lines that are no sentinel, then one sentinel
Framed(s) ==
    /\ ~s.eof
    /\ s.lines # <<>>
    /\ \A i \in 1..Len(s.lines) :
          (Strip(s.lines[i]) = SentinelText) <=> (i = Len(s.lines))

StartupScripts ==
    { Script(<<SentinelLine>>, FALSE, TRUE, TRUE),
      Script(<<BannerLine, SentinelLine>>, FALSE, TRUE, TRUE),
      Script(<<BannerLine, PaddedSentinelLine>>, FALSE, TRUE, FALSE),
      Script(<<>>, TRUE, FALSE, FALSE),
      Script(<<BannerLine>>, TRUE, TRUE, FALSE),
      Script(<<BannerLine>>, FALSE, TRUE, FALSE) }

ResponseScripts(k) ==
    { Script(<<PayloadLine(k), SentinelLine>>, FALSE, TRUE, TRUE),
      Script(<<SentinelLine>>, FALSE, TRUE, FALSE),
      Script(<<PayloadLine(k), PayloadLine(k), SentinelLine>>, FALSE, TRUE, FALSE),
      Script(<<GarbageLine, SentinelLine>>, FALSE, TRUE, FALSE),
      Script(<<PayloadLine(k), LongSentinelLine, SentinelLine>>, FALSE, TRUE, FALSE),
      Script(<<PayloadLine(k), PaddedSentinelLine>>, FALSE, TRUE, FALSE),
      Script(<<PayloadLine(k), SentinelLine, PayloadLine(k), SentinelLine>>,
             FALSE, TRUE, FALSE),
      Script(<<>>, TRUE, FALSE, FALSE),
      Script(<<PayloadLine(k)>>, TRUE, TRUE, FALSE),
      Script(<<>>, FALSE, TRUE, FALSE) }

(***************************************************************************)
(* Configuration: os.environ, as the set of the variables that are set.    *)
(***************************************************************************)
EnvNames == {"SEMAFOR_HOME", "MALT_MODEL_DIR"}
EnvValue(n) == IF n = "SEMAFOR_HOME" THEN "/opt/semafor" ELSE "/opt/malt"

\* os.environ.get(n, default)
EnvGet(e, n, default) == IF n \in e THEN EnvValue(n) ELSE default

\* mutant: the model directory has no fallback
ModelDirNoFallback(e, semafor_home) == EnvGet(e, "MALT_MODEL_DIR", "")

\* model_dir = os.environ.get("MALT_MODEL_DIR", semafor_home)
ModelDir(e, semafor_home) == EnvGet(e, "MALT_MODEL_DIR", semafor_home)

\* the command line of the parser process
Cmd(e) ==
    LET semafor_home == EnvValue("SEMAFOR_HOME") IN
    [cp |-> semafor_home, model_dir |-> ModelDir(e, semafor_home)]

NoCmd == [cp |-> "", model_dir |-> ""]

(***************************************************************************)
(* State.                                                                  *)
(***************************************************************************)
VARIABLES
    env,        \* os.environ: the configuration variables that are set
    lock,       \* _SINGLETON_LOCK: 0 when free, else the caller holding it
    singleton,  \* _Semafor.singleton: <<>> when the attribute is absent
    nobj,       \* _Semafor objects constructed so far
    launched,   \* parser processes launched so far (the newest has this id)
    procCmd,    \* command line of the newest process
    stdin,      \* characters written to the process and not yet read by it
    out,        \* lines printed by the process and not yet read
    outEOF,     \* the process's output ends after the lines in out
    alive,      \* the process is there to be written to
    pc,         \* where each caller is
    req,        \* conll_str of each caller's call
    self,       \* the _Semafor object a caller is constructing
    lines,      \* list(self._read_next_output()) of each caller's call
    outcome,    \* how each caller's call ended
    ncalls,     \* calls started so far
    callNo,     \* number of each caller's current call
    wireLog,    \* calls in the order of their wire events, repeats merged
    procOK,     \* every script the processes chose so far follows the protocol
    startEOF,   \* the caller's startup read end-of-file
    broken,     \* singleton and launch count when a call read end-of-file
    ready,      \* the process whose readiness sentinel was read, 0 for none
    written,    \* the characters each caller's call has written
    proto       \* framed: every script of the newest process so far ends each
                \* frame with one sentinel; lastOK: so does its latest script,
                \* after one payload line for the request

adapterVars ==
    <<env, lock, singleton, nobj, launched, procCmd, stdin, out, outEOF, alive,
      pc, req, self, lines, outcome, ncalls, callNo, wireLog, procOK,
      startEOF, broken, ready, written, proto>>

VARIABLES
    af_pc,      \* where add_frames is
    af_doc,     \* saf_article
    af_i,       \* index of the tree the loop is at
    af_fi,      \* index of the frame of the response being converted
    af_tokens,  \* tokens: the tree's sentence's tokens, sorted by offset
    af_sent,    \* sent: what call_semafor returned for the tree
    af_sents,   \* what call_semafor returned for each tree so far
    af_calls,   \* the requests given to call_semafor so far
    af_exc,     \* the exception add_frames ended with
    af_doc0     \* saf_article as it was when add_frames was called

framesVars ==
    <<af_pc, af_doc, af_i, af_fi, af_tokens, af_sent, af_sents, af_calls, af_exc,
      af_doc0>>

VARIABLES
    st_task,    \* the single-document task that runs
    st_param,   \* its parameter: output (guess_language), language (stem_snowball)
    st_doc,     \* its doc argument
    st_pc,      \* "run", "returned" or "raised"
    st_i,       \* the step of the task that comes next
    st_val,     \* the value passed along the pipe
    st_log,     \* the fetches and processing steps done so far
    st_exc      \* the exception the task ended with

singleVars == <<st_task, st_param, st_doc, st_pc, st_i, st_val, st_log, st_exc>>

NoOutcome == [kind |-> "none", exc |-> "", val |-> <<>>]
NoObject == [obj |-> 0, process |-> 0]

AdapterInit ==
    /\ env \in SUBSET EnvNames
    /\ lock = 0
    /\ singleton = <<>>
    /\ nobj = 0
    /\ launched = 0
    /\ procCmd = NoCmd
    /\ stdin = <<>>
    /\ out = <<>>
    /\ outEOF = FALSE
    /\ alive = FALSE
    /\ pc = [c \in Callers |-> "idle"]
    /\ req = [c \in Callers |-> <<>>]
    /\ self = [c \in Callers |-> NoObject]
    /\ lines = [c \in Callers |-> <<>>]
    /\ outcome = [c \in Callers |-> NoOutcome]
    /\ ncalls = 0
    /\ callNo = [c \in Callers |-> 0]
    /\ wireLog = <<>>
    /\ procOK = TRUE
    /\ startEOF = [c \in Callers |-> FALSE]
    /\ broken = <<>>
    /\ ready = 0
    /\ written = [c \in Callers |-> <<>>]
    /\ proto = [framed |-> TRUE, lastOK |-> TRUE, violated |-> 0]

(***************************************************************************)
(* The pure parts of the adapter.                                          *)
(***************************************************************************)
\* mutant: the lock is never waited for
LockAlwaysFree(l) == TRUE

\* mutant: the lock guards the calls only, not the lazy initialisation
LockFreeBeforeStartup(l) == l = 0 \/ singleton = <<>>

\* with _SINGLETON_LOCK: the lock can be taken only when nobody holds it
LockFree(l) == l = 0

\* mutant: the attribute is looked up under a misspelt name and never found
NeverHasSingleton(s) == FALSE

\* mutant: an adapter whose process closed its output counts as absent
HasLiveSingleton(s) == s # <<>> /\ ~(out = <<>> /\ outEOF)

\* hasattr(_Semafor, 'singleton')
HasSingleton(s) == s # <<>>

\* mutant: end-of-file ends the frame like a sentinel does
ReadNextOutputEOFBreaks(line) ==
    IF Strip(line) = SentinelText \/ Strip(line) = <<>> THEN "break" ELSE "yield"

\* mutant: a line that begins with the sentinel text ends the frame
ReadNextOutputPrefix(line) ==
    IF line = EOFLine THEN "raise"
    ELSE IF Len(Strip(line)) >= Len(SentinelText)
            /\ SubSeq(Strip(line), 1, Len(SentinelText)) = SentinelText THEN "break"
    ELSE "yield"

\* mutant: whatever line comes first ends the frame
ReadNextOutputFirstLine(line) ==
    IF line = EOFLine THEN "raise" ELSE "break"

\* one round of the loop of _read_next_output on the line readline() gave:
\* "raise" at end-of-file, "break" at the sentinel, else "yield"
ReadNextOutput(line) ==
    IF line = EOFLine THEN "raise"
    ELSE IF Strip(line) = SentinelText THEN "break"
    ELSE "yield"

\* mutant: the first line is taken, however many there are
DecodeFirstLine(ls) ==
    IF Len(ls) = 0 THEN [kind |-> "raise", exc |-> "IndexError", val |-> <<>>]
    ELSE IF ~JsonLoads(ls[1]).ok
         THEN [kind |-> "raise", exc |-> "ValueError: json", val |-> <<>>]
         ELSE [kind |-> "return", exc |-> "", val |-> JsonLoads(ls[1]).val]

\* line, = lines; return json.loads(line)
Decode(ls) ==
    IF Len(ls) # 1 THEN [kind |-> "raise", exc |-> "ValueError: unpack", val |-> <<>>]
    ELSE IF ~JsonLoads(ls[1]).ok
         THEN [kind |-> "raise", exc |-> "ValueError: json", val |-> <<>>]
         ELSE [kind |-> "return", exc |-> "", val |-> JsonLoads(ls[1]).val]

\* what conll_str.strip() puts on the wire
RequestText(conll_str) == Strip(conll_str)

\* the position of the first blank line ("\n\n") in s, 0 when there is none
RECURSIVE FindBlank(_, _)
FindBlank(s, i) ==
    IF i + 1 > Len(s) THEN 0
    ELSE IF s[i] = NL /\ s[i + 1] = NL THEN i
    ELSE FindBlank(s, i + 1)

(***************************************************************************)
(* Bookkeeping shared by the steps.                                        *)
(***************************************************************************)
\* mutant: an exception takes the caller out of the call at once, past the
\* end of the with block
RaiseWithoutUnwinding(c, e) ==
    /\ pc' = [pc EXCEPT ![c] = "idle"]
    /\ outcome' = [outcome EXCEPT ![c] = [kind |-> "raise", exc |-> e, val |-> <<>>]]

\* an exception unwinds to the end of the with block of call_semafor
Raise(c, e) ==
    /\ pc' = [pc EXCEPT ![c] = "exit"]
    /\ outcome' = [outcome EXCEPT ![c] = [kind |-> "raise", exc |-> e, val |-> <<>>]]

Goto(c, l) == pc' = [pc EXCEPT ![c] = l]

\* caller c touches the process's pipes
Wire(c) ==
    wireLog' = IF wireLog # <<>> /\ wireLog[Len(wireLog)] = callNo[c]
               THEN wireLog
               ELSE Append(wireLog, callNo[c])

\* mutant: readline() gives up after a while and reports end-of-file
CanReadOrTimeout == TRUE

\* readline() blocks until there is a line or the output has ended
CanRead == out # <<>> \/ outEOF
NextLine == IF out # <<>> THEN Head(out) ELSE EOFLine
RestOut == IF out # <<>> THEN Tail(out) ELSE out

(***************************************************************************)
(* A caller invokes the module-level call_semafor(conll_str).              *)
(***************************************************************************)
Enter(c) ==
    /\ pc[c] = "idle"
    /\ ncalls < MaxCalls
    /\ \E r \in Requests : req' = [req EXCEPT ![c] = r]
    /\ ncalls' = ncalls + 1
    /\ callNo' = [callNo EXCEPT ![c] = ncalls + 1]
    /\ Goto(c, "acquire")
    /\ UNCHANGED <<env, lock, singleton, nobj, launched, procCmd, stdin, out,
                   outEOF, alive, self, lines, outcome, wireLog, procOK,
                   startEOF, broken>>
    /\ written' = [written EXCEPT ![c] = <<>>]
    /\ UNCHANGED <<ready, proto>>
    /\ UNCHANGED <<framesVars, singleVars>>

\* with _SINGLETON_LOCK:
Acquire(c) ==
    /\ pc[c] = "acquire"
    /\ LockFree(lock)
    /\ lock' = c
    /\ Goto(c, "check")
    /\ UNCHANGED <<env, singleton, nobj, launched, procCmd, stdin, out, outEOF,
                   alive, req, self, lines, outcome, ncalls, callNo, wireLog,
                   procOK, startEOF, broken>>
    /\ UNCHANGED <<ready, written, proto>>
    /\ UNCHANGED <<framesVars, singleVars>>

\* if not hasattr(_Semafor, 'singleton'): ... _Semafor() begins
CheckSingleton(c) ==
    /\ pc[c] = "check"
    /\ IF HasSingleton(singleton)
       THEN /\ Goto(c, "write1")
            /\ UNCHANGED <<nobj, self>>
       ELSE /\ Goto(c, "start")
            /\ nobj' = nobj + 1
            /\ self' = [self EXCEPT ![c] = [obj |-> nobj + 1, process |-> 0]]
    /\ UNCHANGED <<env, lock, singleton, launched, procCmd, stdin, out, outEOF,
                   alive, req, lines, outcome, ncalls, callNo, wireLog, procOK,
                   startEOF, broken>>
    /\ UNCHANGED <<ready, written, proto>>
    /\ UNCHANGED <<framesVars, singleVars>>

\* start_semafor up to Popen: the configuration is resolved and the process
\* launched, or os.environ["SEMAFOR_HOME"] raises KeyError
StartSemafor(c) ==
    /\ pc[c] = "start"
    /\ IF "SEMAFOR_HOME" \in env
       THEN /\ launched' = launched + 1
            /\ self' = [self EXCEPT ![c].process = launched + 1]
            /\ procCmd' = Cmd(env)
            /\ stdin' = <<>>
            /\ \E s \in StartupScripts :
                  /\ out' = s.lines
                  /\ outEOF' = s.eof
                  /\ alive' = s.alive
                  /\ procOK' = s.ok
                  /\ proto' = [framed |-> Framed(s), lastOK |-> TRUE, violated |-> 0]
            /\ Goto(c, "startread")
            /\ UNCHANGED outcome
       ELSE /\ Raise(c, "KeyError")
            /\ UNCHANGED <<launched, self, procCmd, stdin, out, outEOF, alive,
                           procOK, proto>>
    /\ UNCHANGED <<env, lock, singleton, nobj, req, lines, ncalls, callNo,
                   wireLog, startEOF, broken>>
    /\ UNCHANGED <<ready, written>>
    /\ UNCHANGED <<framesVars, singleVars>>

\* mutant: one line is read at startup, whatever it is
StartReadOneLine(c) ==
    /\ pc[c] = "startread"
    /\ CanRead
    /\ out' = RestOut
    /\ Wire(c)
    /\ startEOF' = [startEOF EXCEPT ![c] = @ \/ NextLine = EOFLine]
    /\ IF NextLine = EOFLine
       THEN Raise(c, "Exception: Unexpected EOF")
       ELSE Goto(c, "install") /\ UNCHANGED outcome
    /\ UNCHANGED <<env, lock, singleton, nobj, launched, procCmd, stdin, outEOF,
                   alive, req, self, lines, ncalls, callNo, procOK, broken>>
    /\ ready' = IF Strip(NextLine) = SentinelText THEN launched ELSE ready
    /\ UNCHANGED <<written, proto>>
    /\ UNCHANGED <<framesVars, singleVars>>

\* for _ in self._read_next_output(): pass
StartRead(c) ==
    /\ pc[c] = "startread"
    /\ CanRead
    /\ out' = RestOut
    /\ Wire(c)
    /\ startEOF' = [startEOF EXCEPT ![c] = @ \/ NextLine = EOFLine]
    /\ CASE ReadNextOutput(NextLine) = "raise" ->
                Raise(c, "Exception: Unexpected EOF")
         [] ReadNextOutput(NextLine) = "break" ->
                Goto(c, "install") /\ UNCHANGED outcome
         [] OTHER ->
                UNCHANGED <<pc, outcome>>
    /\ UNCHANGED <<env, lock, singleton, nobj, launched, procCmd, stdin, outEOF,
                   alive, req, self, lines, ncalls, callNo, procOK, broken>>
    /\ ready' = IF Strip(NextLine) = SentinelText THEN launched ELSE ready
    /\ UNCHANGED <<written, proto>>
    /\ UNCHANGED <<framesVars, singleVars>>

\* _Semafor.singleton = _Semafor()
Install(c) ==
    /\ pc[c] = "install"
    /\ singleton' = <<self[c]>>
    /\ Goto(c, "write1")
    /\ UNCHANGED <<env, lock, nobj, launched, procCmd, stdin, out, outEOF,
                   alive, req, self, lines, outcome, ncalls, callNo, wireLog,
                   procOK, startEOF, broken>>
    /\ UNCHANGED <<ready, written, proto>>
    /\ UNCHANGED <<framesVars, singleVars>>

\* self.process.stdin.write(data): IOError when the process is gone
Write(c, from, to, data) ==
    /\ pc[c] = from
    /\ Wire(c)
    /\ IF alive
       THEN /\ stdin' = stdin \o data
            /\ Goto(c, to)
            /\ UNCHANGED outcome
       ELSE /\ Raise(c, "IOError")
            /\ UNCHANGED stdin
    /\ UNCHANGED <<env, lock, singleton, nobj, launched, procCmd, out, outEOF,
                   alive, req, self, lines, ncalls, callNo, procOK, startEOF,
                   broken>>
    /\ written' = IF alive THEN [written EXCEPT ![c] = @ \o data] ELSE written
    /\ UNCHANGED <<ready, proto>>
    /\ UNCHANGED <<framesVars, singleVars>>

\* self.process.stdin.write(conll_str.strip())
WriteRequest(c) == Write(c, "write1", "write2", RequestText(req[c]))

\* self.process.stdin.write("\n\n")
WriteBlank(c) == Write(c, "write2", "flush", <<NL, NL>>)

\* self.process.stdin.flush(): the pipe is unbuffered, nothing is held back
Flush(c) ==
    /\ pc[c] = "flush"
    /\ Goto(c, "read")
    /\ UNCHANGED <<env, lock, singleton, nobj, launched, procCmd, stdin, out,
                   outEOF, alive, req, self, lines, outcome, ncalls, callNo,
                   wireLog, procOK, startEOF, broken>>
    /\ UNCHANGED <<ready, written, proto>>
    /\ UNCHANGED <<framesVars, singleVars>>

\* mutant: the caller gives up as soon as a second line arrives
ReadResponseEager(c) ==
    /\ pc[c] = "read"
    /\ CanRead
    /\ out' = RestOut
    /\ Wire(c)
    /\ CASE ReadNextOutput(NextLine) = "raise" ->
                /\ Raise(c, "Exception: Unexpected EOF")
                /\ broken' = IF broken = <<>>
                             THEN <<[singleton |-> singleton, launched |-> launched,
                                    call |-> callNo[c]]>>
                             ELSE broken
                /\ UNCHANGED lines
         [] ReadNextOutput(NextLine) = "break" ->
                /\ Goto(c, "decode")
                /\ UNCHANGED <<outcome, lines, broken>>
         [] OTHER ->
                /\ lines' = [lines EXCEPT ![c] = Append(@, NextLine)]
                /\ IF Len(lines[c]) >= 1
                   THEN Raise(c, "ValueError: unpack")
                   ELSE UNCHANGED <<pc, outcome>>
                /\ UNCHANGED broken
    /\ UNCHANGED <<env, lock, singleton, nobj, launched, procCmd, stdin, outEOF,
                   alive, req, self, ncalls, callNo, procOK, startEOF>>
    /\ proto' = IF ReadNextOutput(NextLine) = "yield" /\ Len(lines[c]) >= 1
                THEN [proto EXCEPT !.violated = callNo[c]]
                ELSE proto
    /\ UNCHANGED <<ready, written>>
    /\ UNCHANGED <<framesVars, singleVars>>

\* lines = list(self._read_next_output())
ReadResponse(c) ==
    /\ pc[c] = "read"
    /\ CanRead
    /\ out' = RestOut
    /\ Wire(c)
    /\ CASE ReadNextOutput(NextLine) = "raise" ->
                /\ Raise(c, "Exception: Unexpected EOF")
                /\ broken' = IF broken = <<>>
                             THEN <<[singleton |-> singleton, launched |-> launched,
                                    call |-> callNo[c]]>>
                             ELSE broken
                /\ UNCHANGED lines
         [] ReadNextOutput(NextLine) = "break" ->
                /\ Goto(c, "decode")
                /\ UNCHANGED <<outcome, lines, broken>>
         [] OTHER ->
                /\ lines' = [lines EXCEPT ![c] = Append(@, NextLine)]
                /\ UNCHANGED <<pc, outcome, broken>>
    /\ UNCHANGED <<env, lock, singleton, nobj, launched, procCmd, stdin, outEOF,
                   alive, req, self, ncalls, callNo, procOK, startEOF>>
    /\ UNCHANGED <<ready, written, proto>>
    /\ UNCHANGED <<framesVars, singleVars>>

\* line, = lines; return json.loads(line)
Return(c) ==
    /\ pc[c] = "decode"
    /\ outcome' = [outcome EXCEPT ![c] = Decode(lines[c])]
    /\ Goto(c, "exit")
    /\ UNCHANGED <<env, lock, singleton, nobj, launched, procCmd, stdin, out,
                   outEOF, alive, req, self, lines, ncalls, callNo, wireLog,
                   procOK, startEOF, broken>>
    /\ proto' = IF Decode(lines[c]).exc = "ValueError: unpack"
                THEN [proto EXCEPT !.violated = callNo[c]]
                ELSE proto
    /\ UNCHANGED <<ready, written>>
    /\ UNCHANGED <<framesVars, singleVars>>

\* mutant: the lock is released by hand after the call, so only on return
ReleaseOnReturnOnly(c) ==
    /\ pc[c] = "exit"
    /\ lock' = IF outcome[c].kind = "return" THEN 0 ELSE lock
    /\ Goto(c, "idle")
    /\ req' = [req EXCEPT ![c] = <<>>]
    /\ self' = [self EXCEPT ![c] = NoObject]
    /\ lines' = [lines EXCEPT ![c] = <<>>]
    /\ outcome' = [outcome EXCEPT ![c] = NoOutcome]
    /\ startEOF' = [startEOF EXCEPT ![c] = FALSE]
    /\ written' = [written EXCEPT ![c] = <<>>]
    /\ UNCHANGED <<env, singleton, nobj, launched, procCmd, stdin, out, outEOF,
                   alive, ncalls, callNo, wireLog, procOK, broken, ready, proto>>
    /\ UNCHANGED <<framesVars, singleVars>>

\* leaving the with block, by return or by exception, releases the lock
Release(c) ==
    /\ pc[c] = "exit"
    /\ lock' = 0
    /\ Goto(c, "idle")
    /\ req' = [req EXCEPT ![c] = <<>>]
    /\ self' = [self EXCEPT ![c] = NoObject]
    /\ lines' = [lines EXCEPT ![c] = <<>>]
    /\ outcome' = [outcome EXCEPT ![c] = NoOutcome]
    /\ startEOF' = [startEOF EXCEPT ![c] = FALSE]
    /\ UNCHANGED <<env, singleton, nobj, launched, procCmd, stdin, out, outEOF,
                   alive, ncalls, callNo, wireLog, procOK, broken>>
    /\ written' = [written EXCEPT ![c] = <<>>]
    /\ UNCHANGED <<ready, proto>>
    /\ UNCHANGED <<framesVars, singleVars>>

\* the process reads one request, up to its blank line, and commits to what
\* it prints for it
ProcRespond ==
    /\ launched > 0
    /\ alive
    /\ ~outEOF
    /\ FindBlank(stdin, 1) > 0
    /\ LET i == FindBlank(stdin, 1) IN
       /\ stdin' = SubSeq(stdin, i + 2, Len(stdin))
       /\ \E s \in ResponseScripts(SubSeq(stdin, 1, i - 1)) :
             /\ out' = out \o s.lines
             /\ outEOF' = s.eof
             /\ alive' = s.alive
             /\ procOK' = (procOK /\ s.ok)
             /\ proto' = [proto EXCEPT !.framed = @ /\ Framed(s), !.lastOK = s.ok]
    /\ UNCHANGED <<env, lock, singleton, nobj, launched, procCmd, pc, req, self,
                   lines, outcome, ncalls, callNo, wireLog, startEOF, broken>>
    /\ UNCHANGED <<ready, written>>
    /\ UNCHANGED <<framesVars, singleVars>>

(***************************************************************************)
(* add_frames(saf_article): every tree of the document is converted,       *)
(* parsed through the adapter, and the frames of the response are written  *)
(* back in terms of the document's token ids.  The adapter is add_frames's *)
(* environment here: a call either raises or returns a decoded response.   *)
(***************************************************************************)
\* number of trees of a document
MaxTrees == 2
\* number of tokens the parser may report for a sentence
MaxSemTokens == 2

\* the names bound at module level in _semafor.py
ModuleGlobals ==
    {"absolute_import", "datetime", "json", "os", "threading", "subprocess",
     "tempfile", "_Semafor", "_SINGLETON_LOCK", "call_semafor", "to_conll",
     "add_frames"}

\* the names bound in add_frames when the loop body runs
AddFramesLocals ==
    {"saf_article", "provenance", "t", "sid", "tree", "conll", "tokens", "sent"}

\* mutant: the name is looked up as the string it was meant to be
NameBoundOrModule(n) == n \in AddFramesLocals \cup ModuleGlobals \cup {"module"}

\* whether evaluating the name n in the loop body finds a binding; no
\* builtin is called module
NameBound(n) == n \in AddFramesLocals \cup ModuleGlobals

\* the sentences of the documents and their tokens, in list order
Sids == {1, 2}
DocTokens ==
    << [id |-> 11, sentence |-> 1, offset |-> 5],
       [id |-> 20, sentence |-> 2, offset |-> 0],
       [id |-> 10, sentence |-> 1, offset |-> 0] >>

TreeLists ==
    UNION { [1..n -> Sids] : n \in 1..MaxTrees }

StaleFrame == [sentence |-> 1, name |-> "Old", target |-> <<10>>, elements |-> <<>>]
OldProvenance == [module |-> "corenlp", started |-> "then"]
OldError == [module |-> "corenlp", sentence |-> 2, error |-> TRUE]

\* the documents add_frames is given: trees t with t.sentence and t.tree,
\* frames of an earlier run or none, an errors list or none
Docs ==
    { [tokens |-> DocTokens,
       trees |-> [j \in 1..Len(ts) |-> [sentence |-> ts[j], tree |-> <<"tree", j>>]],
       frames |-> fs,
       errors |-> es,
       processed |-> ps] :
      ts \in TreeLists, fs \in {<<>>, <<StaleFrame>>},
      es \in {<<>>, <<<<>>>>, <<<<OldError>>>>},
      ps \in {<<>>, <<OldProvenance>>} }

\* to_conll(tree): the conversion keeps the tree apart from other trees
ToConll(tree) == <<"conll", tree>>

\* sorted(..., key=lambda token: int(token['offset'])): stable insertion
InsertByOffset(sorted, t) ==
    LET pos == Cardinality({i \in 1..Len(sorted) : sorted[i].offset <= t.offset})
    IN SubSeq(sorted, 1, pos) \o <<t>> \o SubSeq(sorted, pos + 1, Len(sorted))

\* mutant: the tokens are taken in document order
Unsorted(s) == s

RECURSIVE SortedByOffset(_)
SortedByOffset(s) ==
    IF s = <<>> THEN <<>>
    ELSE InsertByOffset(SortedByOffset(SubSeq(s, 1, Len(s) - 1)), s[Len(s)])

\* tokens = sorted((w for w in saf_article['tokens'] if w['sentence'] == sid), ...)
TokensOf(doc, sid) ==
    SortedByOffset(SelectSeq(doc.tokens, LAMBDA w : w.sentence = sid))

\* what the parser may answer: an error, or its token count and frames; a
\* frame has a target and the frame elements of its first annotation set,
\* each with spans of token positions [start, end)
Span(s, e) == [start |-> s, end |-> e]
FrameA ==
    [target |-> [name |-> "A", spans |-> <<Span(0, 1)>>],
     elements |-> <<[name |-> "Arg", spans |-> <<Span(1, 2)>>]>>]
FrameB ==
    [target |-> [name |-> "B", spans |-> <<Span(0, 2)>>],
     elements |-> <<>>]
FrameC ==
    [target |-> [name |-> "C", spans |-> <<Span(0, 1)>>],
     elements |-> <<>>]
FrameLists == {<<>>, <<FrameA>>, <<FrameB, FrameA>>, <<FrameC>>, <<FrameC, FrameB>>}

ErrorResponse == [error |-> TRUE, tokens |-> 0, frames |-> <<>>]
Responses ==
    {ErrorResponse} \cup
    {[error |-> FALSE, tokens |-> n, frames |-> fs] :
        n \in 0..MaxSemTokens, fs \in FrameLists}

\* for i in range(span["start"], span["end"]): yield tokens[i]['id']
RangeIds(tokens, span) ==
    LET n == IF span.end > span.start THEN span.end - span.start ELSE 0
        ok == \A k \in 1..n : span.start + k <= Len(tokens)
    IN [ok |-> ok,
        ids |-> IF ok THEN [k \in 1..n |-> tokens[span.start + k].id] ELSE <<>>]

\* list(get_tokenids(f)): the ids of all spans of f, IndexError past the end
RECURSIVE GetTokenIds(_, _)
GetTokenIds(tokens, spans) ==
    IF spans = <<>> THEN [ok |-> TRUE, ids |-> <<>>]
    ELSE LET h == RangeIds(tokens, Head(spans))
             r == GetTokenIds(tokens, Tail(spans))
         IN [ok |-> h.ok /\ r.ok, ids |-> h.ids \o r.ids]

\* the record appended for one frame of the response
BuildFrame(sid, tokens, frame) ==
    LET t == GetTokenIds(tokens, frame.target.spans)
        els == [k \in 1..Len(frame.elements) |->
                   GetTokenIds(tokens, frame.elements[k].spans)]
    IN [ok |-> t.ok /\ \A k \in 1..Len(els) : els[k].ok,
        f |-> [sentence |-> sid,
               name |-> frame.target.name,
               target |-> t.ids,
               elements |-> [k \in 1..Len(els) |->
                               [name |-> frame.elements[k].name,
                                target |-> els[k].ids]]]]

\* mutant: the assertion is not evaluated
TokensAlignedUnchecked(tokens, sent) == TRUE

\* assert len(tokens) == len(sem_tokens)
TokensAligned(tokens, sent) == Len(tokens) = sent.tokens

Provenance == [module |-> "semafor", started |-> "now"]

NoDoc ==
    [tokens |-> <<>>, trees |-> <<>>, frames |-> <<>>, errors |-> <<>>,
     processed |-> <<>>]

FramesIdle ==
    /\ af_pc = "idle"
    /\ af_doc = NoDoc
    /\ af_i = 0
    /\ af_fi = 0
    /\ af_tokens = <<>>
    /\ af_sent = ErrorResponse
    /\ af_sents = <<>>
    /\ af_calls = <<>>
    /\ af_exc = ""
    /\ af_doc0 = NoDoc

FramesInit ==
    /\ af_pc = "init"
    /\ af_doc \in Docs
    /\ af_i = 0
    /\ af_fi = 0
    /\ af_tokens = <<>>
    /\ af_sent = ErrorResponse
    /\ af_sents = <<>>
    /\ af_calls = <<>>
    /\ af_exc = ""
    /\ af_doc0 = af_doc

AF_Raise(e) == af_pc' = "raised" /\ af_exc' = e

\* mutant: the frames list is created only when the document has none
AF_BeginNoReset ==
    /\ af_pc = "init"
    /\ af_doc' = [af_doc EXCEPT !.processed = Append(@, Provenance)]
    /\ af_i' = 1
    /\ af_pc' = "loop"
    /\ UNCHANGED <<af_fi, af_tokens, af_sent, af_sents, af_calls, af_exc>>
    /\ UNCHANGED <<af_doc0, adapterVars, singleVars>>

\* saf_article['frames'] = []; the provenance entry is appended
AF_Begin ==
    /\ af_pc = "init"
    /\ af_doc' = [af_doc EXCEPT !.frames = <<>>,
                                !.processed = Append(@, Provenance)]
    /\ af_i' = 1
    /\ af_pc' = "loop"
    /\ UNCHANGED <<af_fi, af_tokens, af_sent, af_sents, af_calls, af_exc>>
    /\ UNCHANGED <<af_doc0, adapterVars, singleVars>>

\* the head of the loop body: the tree is converted, the sentence's tokens
\* sorted, and the adapter called; either call may raise
AF_Call ==
    /\ af_pc = "loop"
    /\ af_i <= Len(af_doc.trees)
    /\ LET t == af_doc.trees[af_i] IN
       \/ /\ AF_Raise("to_conll")
          /\ UNCHANGED <<af_tokens, af_sent, af_sents, af_calls>>
       \/ /\ af_calls' = Append(af_calls, ToConll(t.tree))
          /\ af_tokens' = TokensOf(af_doc, t.sentence)
          /\ \/ /\ AF_Raise("call_semafor")
                /\ UNCHANGED <<af_sent, af_sents>>
             \/ /\ \E r \in Responses :
                      /\ af_sent' = r
                      /\ af_sents' = Append(af_sents, r)
                /\ af_pc' = "check"
                /\ UNCHANGED af_exc
    /\ UNCHANGED <<af_doc, af_i, af_fi>>
    /\ UNCHANGED <<af_doc0, adapterVars, singleVars>>

\* if "error" in sent: ... continue; else the token counts are asserted equal
AF_Check ==
    /\ af_pc = "check"
    /\ LET sid == af_doc.trees[af_i].sentence IN
       IF af_sent.error
       THEN IF NameBound("module")
            THEN /\ af_doc' =
                      [af_doc EXCEPT !.errors =
                          <<(IF @ = <<>> THEN <<>> ELSE @[1]) \o
                            <<[module |-> "module", sentence |-> sid,
                               error |-> TRUE]>>>>]
                 /\ af_i' = af_i + 1
                 /\ af_pc' = "loop"
                 /\ UNCHANGED <<af_fi, af_exc>>
            ELSE /\ AF_Raise("NameError")
                 /\ UNCHANGED <<af_doc, af_i, af_fi>>
       ELSE IF TokensAligned(af_tokens, af_sent)
            THEN /\ af_fi' = 1
                 /\ af_pc' = "frames"
                 /\ UNCHANGED <<af_doc, af_i, af_exc>>
            ELSE /\ AF_Raise("AssertionError")
                 /\ UNCHANGED <<af_doc, af_i, af_fi>>
    /\ UNCHANGED <<af_tokens, af_sent, af_sents, af_calls>>
    /\ UNCHANGED <<af_doc0, adapterVars, singleVars>>

\* for frame in frames: the frame's record is built and appended
AF_Frame ==
    /\ af_pc = "frames"
    /\ IF af_fi > Len(af_sent.frames)
       THEN /\ af_i' = af_i + 1
            /\ af_pc' = "loop"
            /\ UNCHANGED <<af_doc, af_fi, af_exc>>
       ELSE LET b == BuildFrame(af_doc.trees[af_i].sentence, af_tokens,
                                af_sent.frames[af_fi])
            IN IF b.ok
               THEN /\ af_doc' = [af_doc EXCEPT !.frames = Append(@, b.f)]
                    /\ af_fi' = af_fi + 1
                    /\ UNCHANGED <<af_pc, af_i, af_exc>>
               ELSE /\ AF_Raise("IndexError")
                    /\ UNCHANGED <<af_doc, af_i, af_fi>>
    /\ UNCHANGED <<af_tokens, af_sent, af_sents, af_calls>>
    /\ UNCHANGED <<af_doc0, adapterVars, singleVars>>

\* return saf_article
AF_Return ==
    /\ af_pc = "loop"
    /\ af_i > Len(af_doc.trees)
    /\ af_pc' = "returned"
    /\ UNCHANGED <<af_doc, af_i, af_fi, af_tokens, af_sent, af_sents, af_calls,
                   af_exc>>
    /\ UNCHANGED <<af_doc0, adapterVars, singleVars>>

(***************************************************************************)
(* The single-document tasks guess_language and stem_snowball of           *)
(* single.py: a parameter is checked, the document fetched and piped       *)
(* through the processing steps.                                           *)
(***************************************************************************)
\* length of a document's text
MaxTextLen == 2

Tasks == {"guess_language", "stem_snowball"}

\* the keys of {"best": classify, "rank": rank}
OutputModes == {"best", "rank"}
\* languages the Snowball stemmer knows
StemmerLanguages == {"en", "nl", "porter"}

\* the values callers pass for the parameter
ParamsOf(task) ==
    IF task = "guess_language" THEN OutputModes \cup {"all"}
    ELSE StemmerLanguages \cup {"xx"}

\* the lookup {"best": ..., "rank": ...}[output] succeeds; Stemmer(language)
\* is built
ParamValid(task, param) ==
    IF task = "guess_language" THEN param \in OutputModes
    ELSE param \in StemmerLanguages

\* what an invalid parameter raises
ParamError(task) == IF task = "guess_language" THEN "ValueError" ELSE "KeyError"

\* texts: characters, words separated by blanks
Texts == UNION { [1..n -> {"a", "b", " "}] : n \in 0..MaxTextLen }

\* a doc is literal text, a reference into the document store, or a
\* document that is already a list of tokens
SingleDocs ==
    {[kind |-> "text", body |-> t] : t \in Texts}
    \cup {[kind |-> "es", body |-> <<"a", " ", "b">>]}
    \cup {[kind |-> "tokens", body |-> <<<<"a">>, <<"b">>>>]}

\* fetch(doc): the text of the doc, or the structured document as it is
Fetch(doc) == [text |-> doc.kind # "tokens", body |-> doc.body]

\* nltk.word_tokenize, as far as blanks go: the words between blanks
RECURSIVE Split(_, _)
Split(t, word) ==
    IF t = <<>> THEN (IF word = <<>> THEN <<>> ELSE <<word>>)
    ELSE IF Head(t) = " "
         THEN (IF word = <<>> THEN <<>> ELSE <<word>>) \o Split(Tail(t), <<>>)
         ELSE Split(Tail(t), Append(word, Head(t)))

\* mutant: the document is fetched before the parameter is looked at
PlanFetchFirst(task) ==
    IF task = "guess_language"
    THEN <<"fetch", "validate", "func">>
    ELSE <<"fetch", "validate", "_tokenize_if_needed", "stem">>

\* the steps of a task in the order of its code: the parameter check, then
\* pipe(doc, fetch, ...)
Plan(task) ==
    IF task = "guess_language"
    THEN <<"validate", "fetch", "func">>
    ELSE <<"validate", "fetch", "_tokenize_if_needed", "stem">>

StepNow == IF st_i <= Len(Plan(st_task)) THEN Plan(st_task)[st_i] ELSE "return"

SingleIdle ==
    /\ st_task = "guess_language"
    /\ st_param = "best"
    /\ st_doc = [kind |-> "text", body |-> <<>>]
    /\ st_pc = "idle"
    /\ st_i = 0
    /\ st_val = [text |-> TRUE, body |-> <<>>]
    /\ st_log = <<>>
    /\ st_exc = ""

SingleInit ==
    /\ st_task \in Tasks
    /\ st_param \in ParamsOf(st_task)
    /\ st_doc \in SingleDocs
    /\ st_pc = "run"
    /\ st_i = 1
    /\ st_val = [text |-> TRUE, body |-> <<>>]
    /\ st_log = <<>>
    /\ st_exc = ""

\* func = {...}[output], else ValueError; stem = Stemmer(language).stemWords
ST_Validate ==
    /\ st_pc = "run"
    /\ StepNow = "validate"
    /\ IF ParamValid(st_task, st_param)
       THEN st_i' = st_i + 1 /\ UNCHANGED <<st_pc, st_exc>>
       ELSE st_pc' = "raised" /\ st_exc' = ParamError(st_task) /\ UNCHANGED st_i
    /\ UNCHANGED <<st_task, st_param, st_doc, st_val, st_log>>
    /\ UNCHANGED <<adapterVars, framesVars>>

\* pipe(doc, fetch, ...): the document is fetched
ST_Fetch ==
    /\ st_pc = "run"
    /\ StepNow = "fetch"
    /\ st_val' = Fetch(st_doc)
    /\ st_log' = Append(st_log, "fetch")
    /\ st_i' = st_i + 1
    /\ UNCHANGED <<st_task, st_param, st_doc, st_pc, st_exc>>
    /\ UNCHANGED <<adapterVars, framesVars>>

\* the processing steps of the pipe: func (classify or rank), and for the
\* stemmer _tokenize_if_needed (tokenize fetches its argument again) and
\* stemWords
ST_Process ==
    /\ st_pc = "run"
    /\ StepNow \in {"func", "_tokenize_if_needed", "stem"}
    /\ CASE StepNow = "func" ->
                /\ st_val' = [text |-> FALSE,
                              body |-> <<IF st_param = "best" THEN "classify"
                                         ELSE "rank", st_val.body>>]
                /\ st_log' = Append(st_log, "func")
         [] StepNow = "_tokenize_if_needed" ->
                IF st_val.text
                THEN /\ st_val' = [text |-> FALSE, body |-> Split(st_val.body, <<>>)]
                     /\ st_log' = st_log \o <<"fetch", "word_tokenize">>
                ELSE UNCHANGED <<st_val, st_log>>
         [] OTHER ->
                /\ st_val' = [text |-> FALSE,
                              body |-> <<"stemWords", st_param, st_val.body>>]
                /\ st_log' = Append(st_log, "stem")
    /\ st_i' = st_i + 1
    /\ UNCHANGED <<st_task, st_param, st_doc, st_pc, st_exc>>
    /\ UNCHANGED <<adapterVars, framesVars>>

\* return pipe(...)
ST_Return ==
    /\ st_pc = "run"
    /\ StepNow = "return"
    /\ st_pc' = "returned"
    /\ UNCHANGED <<st_task, st_param, st_doc, st_i, st_val, st_log, st_exc>>
    /\ UNCHANGED <<adapterVars, framesVars>>

(***************************************************************************)
(* The specifications: concurrent callers of the adapter, and one run of   *)
(* add_frames.                                                             *)
(***************************************************************************)
vars == <<adapterVars, framesVars, singleVars>>

Init == AdapterInit /\ FramesIdle /\ SingleIdle

Next ==
    \/ \E c \in Callers : Enter(c)
    \/ \E c \in Callers : Acquire(c)
    \/ \E c \in Callers : CheckSingleton(c)
    \/ \E c \in Callers : StartSemafor(c)
    \/ \E c \in Callers : StartRead(c)
    \/ \E c \in Callers : Install(c)
    \/ \E c \in Callers : WriteRequest(c)
    \/ \E c \in Callers : WriteBlank(c)
    \/ \E c \in Callers : Flush(c)
    \/ \E c \in Callers : ReadResponse(c)
    \/ \E c \in Callers : Return(c)
    \/ \E c \in Callers : Release(c)
    \/ ProcRespond

Spec == Init /\ [][Next]_vars

\* what caller c does once it has asked for the lock
CallerStep(c) ==
    \/ Acquire(c)
    \/ CheckSingleton(c)
    \/ StartSemafor(c)
    \/ StartRead(c)
    \/ Install(c)
    \/ WriteRequest(c)
    \/ WriteBlank(c)
    \/ Flush(c)
    \/ ReadResponse(c)
    \/ Return(c)
    \/ Release(c)

\* fair scheduling: a thread inside call_semafor that can take a step takes
\* one, and a live process answers a request it has been sent
Fairness ==
    /\ \A c \in Callers : WF_vars(CallerStep(c))
    /\ WF_vars(ProcRespond)

SpecLive == Init /\ [][Next]_vars /\ Fairness

InitFrames == AdapterInit /\ env = EnvNames /\ FramesInit /\ SingleIdle

NextFrames ==
    \/ AF_Begin
    \/ AF_Call
    \/ AF_Check
    \/ AF_Frame
    \/ AF_Return

SpecFrames == InitFrames /\ [][NextFrames]_vars

InitSingle == AdapterInit /\ env = EnvNames /\ FramesIdle /\ SingleInit

NextSingle ==
    \/ ST_Validate
    \/ ST_Fetch
    \/ ST_Process
    \/ ST_Return

SpecSingle == InitSingle /\ [][NextSingle]_vars

(***************************************************************************)
(* Properties of the adapter.                                              *)
(***************************************************************************)
\* the places of a call between launching or writing and the end of reading
WirePcs == {"startread", "install", "write1", "write2", "flush", "read"}
OnWire == {c \in Callers : pc[c] \in WirePcs}

NoRepeat(log) == \A i, j \in 1..Len(log) : i # j => log[i] # log[j]

\* the characters of a request that are not whitespace
Content(r) == SelectSeq(r, LAMBDA ch : ch \notin Whitespace)

Returned(c) == pc[c] = "exit" /\ outcome[c].kind = "return"
Raised(c) == pc[c] = "exit" /\ outcome[c].kind = "raise"

\* C1: at most one caller is between the start of its startup or request
\* and the end of reading its response, and the wire events of a call are
\* never split by those of another call.
C1_OneExchangeAtATime ==
    /\ Cardinality(OnWire) <= 1
    /\ NoRepeat(wireLog)

\* one caller is reading its response while another waits for the lock
C1_Witness ==
    \E c1, c2 \in Callers :
        c1 # c2 /\ pc[c1] = "read" /\ lock = c1 /\ pc[c2] = "acquire"

\* C2: at most one parser process is ever launched, failed startups included.
C2_AtMostOneLaunch == launched <= 1

\* C3: when the configuration is there and the process follows the protocol,
\* a call that ends returns the object the process produced for the text of
\* that call's own request.
C3_OwnResponse ==
    \A c \in Callers :
        (pc[c] = "exit" /\ procOK /\ "SEMAFOR_HOME" \in env) =>
            /\ outcome[c].kind = "return"
            /\ outcome[c].val = <<[id |-> Content(req[c])]>>

\* the second call, of another caller than the first and with the request
\* that needs trimming, has returned
C3_Witness ==
    \E c1, c2 \in Callers :
        /\ c1 # c2 /\ callNo[c1] = 1 /\ callNo[c2] = 2
        /\ Returned(c2) /\ procOK /\ req[c2] = <<" ", "c", NL>>

\* C4: once the singleton is set, no step replaces it or its process.
C4_HandleUnchanged ==
    [][singleton # <<>> => singleton' = singleton]_vars

\* a call on the installed adapter has raised and the adapter is still there
C4_Witness ==
    \E c \in Callers :
        Raised(c) /\ callNo[c] = 2 /\ singleton # <<>> /\ singleton[1].process = 1

\* C5: a call whose startup read end-of-file before the sentinel raises,
\* returns nothing, and leaves no singleton installed.
C5_StartupEOFRaises ==
    \A c \in Callers :
        (pc[c] = "exit" /\ startEOF[c]) =>
            /\ outcome[c].kind = "raise"
            /\ outcome[c].val = <<>>
            /\ singleton = <<>>

\* a startup has read end-of-file after a banner line
C5_Witness ==
    \E c \in Callers : pc[c] = "exit" /\ startEOF[c] /\ launched = 1 /\ outEOF

\* C6: a call returns only when its frame holds exactly one line, and a frame
\* of zero or several lines makes it raise without a value.
C6_ExactlyOneLine ==
    \A c \in Callers :
        pc[c] = "exit" =>
            /\ outcome[c].kind = "return" =>
                  Len(lines[c]) = 1 /\ outcome[c].val = JsonLoads(lines[c][1]).val
            /\ Len(lines[c]) # 1 =>
                  outcome[c].kind = "raise" /\ outcome[c].val = <<>>

\* a frame of two lines was read to its sentinel and the call raised
C6_Witness ==
    \E c \in Callers :
        Raised(c) /\ Len(lines[c]) = 2 /\ outcome[c].exc = "ValueError: unpack"

\* C7: after a call read end-of-file, the singleton and its process stay as
\* they were, nothing is launched, and every call that ends has raised.
C7_StaysBroken ==
    broken # <<>> =>
        /\ singleton # <<>>
        /\ singleton = broken[1].singleton
        /\ launched = broken[1].launched
        /\ \A c \in Callers : pc[c] = "exit" => outcome[c].kind = "raise"

\* a call made after the one that read end-of-file has ended
C7_Witness ==
    /\ broken # <<>>
    /\ \E c \in Callers : pc[c] = "exit" /\ callNo[c] > broken[1].call

\* C8: without SEMAFOR_HOME every call raises KeyError with nothing launched
\* and nothing written; with SEMAFOR_HOME but without MALT_MODEL_DIR no call
\* raises KeyError and the process is given SEMAFOR_HOME as model directory.
C8_Configuration ==
    /\ "SEMAFOR_HOME" \notin env =>
          /\ launched = 0 /\ stdin = <<>> /\ wireLog = <<>>
          /\ \A c \in Callers :
                pc[c] = "exit" => outcome[c].kind = "raise" /\ outcome[c].exc = "KeyError"
    /\ ("SEMAFOR_HOME" \in env /\ "MALT_MODEL_DIR" \notin env) =>
          /\ launched > 0 => procCmd.model_dir = EnvValue("SEMAFOR_HOME")
          /\ \A c \in Callers : pc[c] = "exit" => outcome[c].exc # "KeyError"

\* the first call has failed for want of SEMAFOR_HOME
C8_Witness ==
    \E c \in Callers :
        Raised(c) /\ outcome[c].exc = "KeyError" /\ callNo[c] = 1 /\ launched = 0

(***************************************************************************)
(* Properties of add_frames.                                               *)
(***************************************************************************)
\* the loop has dealt with the response for tree j
Checked(j) == j <= Len(af_sents) /\ ~(j = af_i /\ af_pc = "check")

\* the entries of the errors list, none when the document has no list
ErrorsOf(doc) == IF doc.errors = <<>> THEN <<>> ELSE doc.errors[1]

\* how many elements of sequence s satisfy P
Count(s, P(_)) == Cardinality({k \in 1..Len(s) : P(s[k])})

\* the frames the error-free responses up to tree j carry for sentence sid
RECURSIVE FramesDue(_, _)
FramesDue(j, sid) ==
    IF j = 0 THEN 0
    ELSE FramesDue(j - 1, sid) +
         (IF af_doc.trees[j].sentence = sid /\ ~af_sents[j].error
          THEN Len(af_sents[j].frames) ELSE 0)

\* C9: for every tree whose response carried an error field, the errors list
\* holds one entry tagged with the tree's sentence for each such response,
\* no frame of that run is appended for it, and add_frames has not stopped
\* at that tree.
C9_ErrorRecordedAndSkipped ==
    \A j \in 1..Len(af_sents) :
        (af_sents[j].error /\ Checked(j)) =>
            LET sid == af_doc.trees[j].sentence IN
            /\ Count(ErrorsOf(af_doc),
                     LAMBDA e : e.sentence = sid /\ e.module # "corenlp")
                 = Cardinality({k \in 1..Len(af_sents) :
                                   /\ af_sents[k].error /\ Checked(k)
                                   /\ af_doc.trees[k].sentence = sid})
            /\ Count(af_doc.frames, LAMBDA f : f.sentence = sid)
                 <= FramesDue(Len(af_sents), sid)
            /\ ~(af_pc = "raised" /\ af_i = j)

\* C10: when an error-free response reports another number of tokens than
\* the document has for the sentence, add_frames ends there with an
\* AssertionError, and frames are converted only while the counts agree.
C10_TokenAlignment ==
    /\ \A j \in 1..Len(af_sents) :
          ( /\ ~af_sents[j].error
            /\ Checked(j)
            /\ af_sents[j].tokens # Len(TokensOf(af_doc, af_doc.trees[j].sentence)) )
          => (af_pc = "raised" /\ af_exc = "AssertionError" /\ af_i = j)
    /\ af_pc = "frames" => af_sent.tokens = Len(af_tokens)

\* the second tree's response has the wrong token count, after the first
\* tree's frames were appended
C10_Witness ==
    /\ af_pc = "raised" /\ af_exc = "AssertionError" /\ af_i = 2
    /\ Len(af_doc.frames) > 0
    /\ ~af_sent.error
    /\ af_sent.tokens # Len(af_tokens)

\* caller c waits in readline() for a process that has nothing more to print
\* and no request left to answer
Hung(c) ==
    /\ pc[c] \in {"startread", "read"}
    /\ out = <<>>
    /\ ~outEOF
    /\ FindBlank(stdin, 1) = 0

\* C11: when the process neither prints a sentinel nor ends its output, the
\* caller in readline() holds the lock and stays where it is, every other
\* caller is idle or waiting for the lock, and nothing more is written to
\* or read from the process.
C11_HangBlocksEveryCaller ==
    [][\A c \in Callers :
          /\ Hung(c)' =>
                /\ lock' = c
                /\ \A d \in Callers \ {c} : pc'[d] \in {"idle", "acquire"}
          /\ Hung(c) =>
                /\ Hung(c)'
                /\ pc'[c] = pc[c]
                /\ stdin' = stdin
                /\ written' = written
                /\ wireLog' = wireLog]_vars

\* a call waits for a response that never comes while another caller waits
\* for the lock
C11_Witness ==
    \E c, d \in Callers :
        c # d /\ Hung(c) /\ pc[c] = "read" /\ pc[d] = "acquire" /\ written[d] = <<>>

(***************************************************************************)
(* Properties of the single-document tasks.                                *)
(***************************************************************************)
\* C12: with an invalid parameter value the task ends with an exception and
\* neither a fetch nor a processing step is ever done; with a valid one the
\* fetch comes before every processing step.
C12_RejectedBeforeFetch ==
    /\ ~ParamValid(st_task, st_param) =>
          /\ st_log = <<>>
          /\ st_pc \in {"run", "raised"}
          /\ st_pc = "raised" => st_exc = ParamError(st_task)
          /\ st_pc = "run" => st_i = 1
    /\ st_log # <<>> => st_log[1] = "fetch"
    /\ st_pc = "returned" => st_log # <<>>

\* stem_snowball has rejected an unknown language for a stored document
C12_Witness ==
    /\ st_pc = "raised"
    /\ st_task = "stem_snowball"
    /\ st_param = "xx"
    /\ st_doc.kind = "es"

(***************************************************************************)
(* The order of startup, request and response.                             *)
(***************************************************************************)
WholeRequest(c) == RequestText(req[c]) \o <<NL, NL>>

\* UNSTARTED until a process is launched, STARTING until its readiness
\* sentinel has been read, BUSY while a caller exchanges a request
AdapterState ==
    IF launched = 0 THEN "UNSTARTED"
    ELSE IF ready # launched THEN "STARTING"
    ELSE IF \E c \in Callers : pc[c] \in {"write1", "write2", "flush", "read", "decode"}
         THEN "BUSY"
    ELSE "READY"

\* C13: nothing is written to a process before its readiness sentinel has
\* been read; the lines read before that sentinel reach no caller's response
\* lines; a caller reads output for a call only after its whole request has
\* been written and flushed; the adapter moves UNSTARTED -> STARTING ->
\* READY -> BUSY -> READY.
C13_ReadyBeforeRequest ==
    [][/\ Len(stdin') > Len(stdin) => launched > 0 /\ ready = launched
       /\ \A c \in Callers :
             /\ pc[c] \in {"check", "start", "startread"} =>
                   lines'[c] = <<>> /\ written'[c] = <<>>
             /\ lines'[c] # lines[c] /\ lines'[c] # <<>> =>
                   /\ pc[c] = "read"
                   /\ ready = launched
                   /\ written[c] = WholeRequest(c)
             /\ pc[c] = "read" => written[c] = WholeRequest(c)
       /\ <<AdapterState, AdapterState'>> \in
             { <<"UNSTARTED", "UNSTARTED">>, <<"UNSTARTED", "STARTING">>,
               <<"STARTING", "STARTING">>, <<"STARTING", "READY">>,
               <<"READY", "READY">>, <<"READY", "BUSY">>,
               <<"BUSY", "BUSY">>, <<"BUSY", "READY">> }]_vars

\* after a startup that printed a banner before the sentinel, a caller has
\* read the one line of its response
C13_Witness ==
    \E c \in Callers :
        /\ pc[c] = "decode"
        /\ self[c].process = 1
        /\ ready = 1
        /\ Len(lines[c]) = 1
        /\ written[c] = WholeRequest(c)
        /\ wireLog = <<callNo[c]>>

(***************************************************************************)
(* Lazy initialisation under the lock.                                     *)
(***************************************************************************)
StartupPcs == {"start", "startread", "install"}

\* C14: startup runs under the lock, so at most one caller is in it at a
\* time; once a startup has succeeded no other process is launched and no
\* other adapter object made, and every caller that exchanges a request does
\* so with the process of the installed singleton, the one whose readiness
\* sentinel was read.
C14_OneStartupForAll ==
    /\ \A c, d \in Callers : pc[c] \in StartupPcs /\ pc[d] \in StartupPcs => c = d
    /\ \A c \in Callers : pc[c] \in StartupPcs => lock = c
    /\ ready = 1 => launched = 1 /\ nobj = 1
    /\ \A c \in Callers :
          pc[c] \in {"write2", "flush", "read", "decode"} =>
              /\ singleton # <<>>
              /\ singleton[1].process = launched
              /\ ready = launched
    /\ \A c \in Callers :
          Returned(c) /\ ready = 1 => singleton[1].process = 1

\* two callers made the first call together; one started the process, the
\* other, who started nothing, now reads its response from that process
C14_Witness ==
    \E c, d \in Callers :
        /\ c # d
        /\ callNo[c] = 2
        /\ callNo[d] = 1
        /\ pc[c] = "read"
        /\ self[c] = NoObject
        /\ launched = 1
        /\ ready = 1
        /\ wireLog = <<1, 2>>

(***************************************************************************)
(* What ends a frame.                                                      *)
(***************************************************************************)
\* caller c takes a line, not end-of-file, from the process's output
ReadsLine(c) ==
    /\ pc[c] \in {"startread", "read"}
    /\ out # <<>>
    /\ out' = Tail(out)

\* the step ends the frame c is reading
EndsFrame(c) == pc'[c] \in {"install", "decode"}

\* the step treats the line as payload: dropped at startup, counted toward
\* the response in a call, and the frame goes on
TakesPayload(c) ==
    /\ pc'[c] = pc[c]
    /\ lines'[c] = IF pc[c] = "read" THEN Append(lines[c], Head(out)) ELSE <<>>

\* C15 as stated: a frame is ended only by the line that is exactly >>>;
\* any other line, one with whitespace around >>> too, is payload.
C15_ExactSentinelOnly ==
    [][\A c \in Callers :
          ReadsLine(c) =>
              IF Head(out) = SentinelLine THEN EndsFrame(c) ELSE TakesPayload(c)]_vars

\* C15 amended: a frame is ended by a line that is >>> once the whitespace
\* around it is stripped, and by no other line; a line that holds >>> next
\* to other characters is payload.
C15_StrippedSentinelOnly ==
    [][\A c \in Callers :
          ReadsLine(c) =>
              IF Strip(Head(out)) = SentinelText
              THEN EndsFrame(c) /\ lines'[c] = lines[c]
              ELSE TakesPayload(c)]_vars

\* a response whose second line merely contains >>> has been read to its
\* sentinel: that line was counted toward the response
C15_Witness ==
    \E c \in Callers :
        /\ pc[c] = "decode"
        /\ Len(lines[c]) = 2
        /\ lines[c][2] = LongSentinelLine

(***************************************************************************)
(* What add_frames sends and what it appends.                              *)
(***************************************************************************)
\* the id of the token of sentence sid that has i tokens of the sentence
\* before it by offset
IdAt(doc, sid, i) ==
    LET ws == {k \in 1..Len(doc.tokens) : doc.tokens[k].sentence = sid}
        before(k) == {m \in ws : doc.tokens[m].offset < doc.tokens[k].offset}
    IN doc.tokens[CHOOSE k \in ws : Cardinality(before(k)) = i].id

\* the ids positions [start, end) of every span stand for
RECURSIVE SpanIds(_, _, _)
SpanIds(doc, sid, spans) ==
    IF spans = <<>> THEN <<>>
    ELSE LET sp == Head(spans) IN
         [k \in 1..(sp.end - sp.start) |-> IdAt(doc, sid, sp.start + k - 1)]
         \o SpanIds(doc, sid, Tail(spans))

\* the record a frame of the response for sentence sid is due
FrameDue(doc, sid, frame) ==
    [sentence |-> sid,
     name |-> frame.target.name,
     target |-> SpanIds(doc, sid, frame.target.spans),
     elements |-> [k \in 1..Len(frame.elements) |->
                     [name |-> frame.elements[k].name,
                      target |-> SpanIds(doc, sid, frame.elements[k].spans)]]]

\* the records due for the first n frames of the response to tree j
FramesDueOf(j, n) ==
    [k \in 1..n |-> FrameDue(af_doc, af_doc.trees[j].sentence, af_sents[j].frames[k])]

\* the records due for trees 1..j
RECURSIVE FramesDueUpTo(_)
FramesDueUpTo(j) ==
    IF j = 0 THEN <<>>
    ELSE FramesDueUpTo(j - 1) \o
         (IF af_sents[j].error THEN <<>>
          ELSE FramesDueOf(j, Len(af_sents[j].frames)))

IdsOf(f) ==
    {f.target[k] : k \in 1..Len(f.target)} \cup
    UNION { {f.elements[e].target[k] : k \in 1..Len(f.elements[e].target)} :
            e \in 1..Len(f.elements) }

\* C16: the adapter is called once per tree, in tree order, with the tree's
\* conversion; the frames list holds, for the error-free responses in
\* order, one record per frame in order, with the sentence and the ids of
\* the tokens at positions [start, end) of the sentence's tokens by offset;
\* every id in a record is the id of a token of the record's sentence.
C16_OneCallPerTreeAndFrames ==
    af_pc \notin {"idle", "init"} =>
        /\ af_calls = [j \in 1..Len(af_calls) |-> ToConll(af_doc.trees[j].tree)]
        /\ af_pc = "loop" => Len(af_calls) = af_i - 1
        /\ af_pc \in {"check", "frames"} => Len(af_calls) = af_i
        /\ af_pc = "returned" => Len(af_calls) = Len(af_doc.trees)
        /\ af_pc \in {"loop", "check", "returned"} =>
              af_doc.frames = FramesDueUpTo(af_i - 1)
        /\ af_pc = "frames" =>
              af_doc.frames = FramesDueUpTo(af_i - 1) \o FramesDueOf(af_i, af_fi - 1)
        /\ \A k \in 1..Len(af_doc.frames) :
              \A id \in IdsOf(af_doc.frames[k]) :
                  \E m \in 1..Len(af_doc.tokens) :
                      /\ af_doc.tokens[m].id = id
                      /\ af_doc.tokens[m].sentence = af_doc.frames[k].sentence

\* two trees answered without error: two frames for the two-token sentence,
\* whose tokens are not in offset order in the document, then one for the
\* other sentence
C16_Witness ==
    /\ af_pc = "returned"
    /\ Len(af_calls) = 2
    /\ Len(af_doc.frames) = 3
    /\ af_doc.frames[1].target = <<10, 11>>
    /\ af_doc.frames[2].elements[1].target = <<11>>
    /\ af_doc.frames[3].sentence = 2

(***************************************************************************)
(* The lock on the ways out of a call.                                     *)
(***************************************************************************)
Outside(c) == pc[c] \in {"idle", "acquire"}

\* C17: the lock is held exactly by the caller that is inside the adapter;
\* when no caller is inside, whatever way the calls before ended, the lock
\* is free.
C17_LockFreeWhenNobodyInside ==
    /\ \A c \in Callers : ~Outside(c) <=> lock = c
    /\ (\A c \in Callers : Outside(c)) => lock = 0

\* the first call ended with an end-of-file in mid-call; the caller has left
\* and the second call has got the lock
C17_Witness ==
    \E c \in Callers :
        /\ broken # <<>>
        /\ broken[1].call = 1
        /\ callNo[c] = 2
        /\ lock = c
        /\ pc[c] = "check"
        /\ \A d \in Callers \ {c} : pc[d] = "idle"

(***************************************************************************)
(* After a response that is not exactly one line.                          *)
(***************************************************************************)
UnpackError(c) == Raised(c) /\ outcome[c].exc = "ValueError: unpack"

\* C18: when a call ends with the exact-one-line violation, the singleton
\* and its process are kept, and of a process that frames what it prints
\* nothing is left unread: the frame was read up to and including its
\* sentinel.  A later call, when the process frames its answers and answers
\* that call properly, returns the response to its own request.
C18_ViolationKeepsStreamAligned ==
    \A c \in Callers :
        /\ UnpackError(c) =>
              /\ singleton # <<>>
              /\ singleton[1].process = launched
              /\ proto.violated = callNo[c]
              /\ proto.framed => out = <<>> /\ ~outEOF /\ alive
        /\ ( /\ pc[c] = "exit"
             /\ proto.violated # 0
             /\ callNo[c] > proto.violated
             /\ proto.framed
             /\ proto.lastOK ) =>
              /\ outcome[c].kind = "return"
              /\ outcome[c].val = <<[id |-> Content(req[c])]>>

\* the first call got no line or several and raised; the second call, of the other
\* caller, has returned
C18_Witness ==
    \E c, d \in Callers :
        /\ c # d
        /\ callNo[c] = 1
        /\ callNo[d] = 2
        /\ proto.violated = 1
        /\ proto.framed
        /\ Returned(d)
        /\ req[d] = <<" ", "c", NL>>
        /\ launched = 1

(***************************************************************************)
(* Progress under fair scheduling.                                         *)
(***************************************************************************)
\* C19: unless the process leaves a caller waiting in readline() without a
\* sentinel and without end-of-file, a caller that holds the lock
\* eventually returns or raises and releases it, and a caller that waits
\* for the lock eventually gets it.
C19_EveryCallEnds ==
    \A c \in Callers :
        /\ (lock = c) ~> (lock # c \/ Hung(c))
        /\ (pc[c] = "acquire") ~> (pc[c] # "acquire" \/ \E d \in Callers : Hung(d))

\* all the calls have been made, one of them ended by an end-of-file in
\* mid-call, and every caller has left with the lock free
C19_Witness ==
    /\ ncalls = MaxCalls
    /\ broken # <<>>
    /\ lock = 0
    /\ \A c \in Callers : pc[c] = "idle"
    /\ \E c, d \in Callers : c # d /\ callNo[c] = 1 /\ callNo[d] = 2

(***************************************************************************)
(* What add_frames leaves in the caller's document.                        *)
(***************************************************************************)
IsPrefix(s, t) == Len(s) <= Len(t) /\ SubSeq(t, 1, Len(s)) = s

\* once add_frames has begun: the frames of before the call are gone, one
\* provenance entry follows those the document had, the entries of an
\* errors list it had are kept, and tokens and trees are as they were
BegunEffect ==
    /\ \A k \in 1..Len(af_doc.frames) : af_doc.frames[k] # StaleFrame
    /\ af_doc.processed = Append(af_doc0.processed, Provenance)
    /\ IsPrefix(ErrorsOf(af_doc0), ErrorsOf(af_doc))
    /\ af_doc0.errors # <<>> => af_doc.errors # <<>>
    /\ af_doc.tokens = af_doc0.tokens
    /\ af_doc.trees = af_doc0.trees

\* C20 as stated: the caller's document is changed step by step, and when
\* add_frames ends with an exception at some tree the frames list holds
\* exactly the frames of the trees before it.
C20_FramesOfEarlierSentencesOnly ==
    af_pc \notin {"idle", "init"} =>
        /\ BegunEffect
        /\ af_pc = "raised" => af_doc.frames = FramesDueUpTo(af_i - 1)

\* C20 amended: when add_frames ends with an exception at some tree the
\* frames list holds the frames of the trees before it, followed by the
\* frames of that tree's response that were converted before the exception.
C20_FramesUpToTheFailure ==
    af_pc \notin {"idle", "init"} =>
        /\ BegunEffect
        /\ af_pc = "raised" =>
              af_doc.frames =
                  FramesDueUpTo(af_i - 1) \o
                  FramesDueOf(af_i, IF af_exc = "IndexError" THEN af_fi - 1 ELSE 0)

\* a document with an old frame, an old error and an old provenance entry:
\* the second tree's response has a second frame that reaches past the
\* sentence's only token, after the first frame of that response and the
\* frames of the first tree were appended
C20_Witness ==
    /\ af_pc = "raised"
    /\ af_exc = "IndexError"
    /\ af_i = 2
    /\ af_fi = 2
    /\ af_doc0.frames = <<StaleFrame>>
    /\ af_doc0.errors = <<<<OldError>>>>
    /\ af_doc0.processed = <<OldProvenance>>
    /\ Len(af_doc.frames) >= 2
    /\ af_doc.frames[Len(af_doc.frames)].sentence = 2

====
